---- MODULE Spec2Model ----
(***************************************************************************)
(* DiscoX evaluation harness: the resumable task runner of                 *)
(* src/run_tasks.py (run_all_sync, wrapped_run, run_task), the judgment    *)
(* pipeline of src/eval/eval_res.py (metrics, safe_json_call,              *)
(* eval_result_by_llm, extract_json_string, calculate_score) and the       *)
(* model invoker of src/runs/run.py (litellm_generate).                    *)
(***************************************************************************)
EXTENDS Naturals, Integers, Sequences, FiniteSets, TLC

(***************************************************************************)
(* Bounds of the model.                                                    *)
(***************************************************************************)
\* task identifiers are 1..MaxTasks
MaxTasks == 2
\* number of run_all_sync invocations (process starts) in one behaviour
MaxRuns == 2
\* largest value of the concurrency argument (threads of the pool)
MaxConcurrency == 2

\* issues over the four judgments of one calculate_score call, any mix
MaxIssues == 2

\* longest judgment of one repeated issue given to calculate_score
MaxRepeat == 11

(***************************************************************************)
(* Python values.  Every value carries its Python type in the field py,    *)
(* so that None, a str, a list and a tuple are distinct values.            *)
(***************************************************************************)
None == [py |-> "None"]

Str(toks) == [py |-> "str", s |-> toks]

List(items) == [py |-> "list", l |-> items]

Tuple(items) == [py |-> "tuple", l |-> items]

\* an exception of class e propagating out of the call `at`
Raise(e, at) == [py |-> "raise", e |-> e, at |-> at]

IsRaise(v) == "py" \in DOMAIN v /\ v.py = "raise"

\* a local variable that has not been assigned yet
Unset == [py |-> "unset"]

\* a score left as it is, without the clamp
MaxLeft(a, b) == a

Max(a, b) == IF a >= b THEN a ELSE b

(***************************************************************************)
(* Texts are sequences of tokens.  A token stands for one character of    *)
(* the text or for one run of characters that the code never looks into.   *)
(***************************************************************************)
\* a code fence (three backquotes), src/eval/eval_res.py:16
FENCE == "fence"

JSONTAG == "json"

WS == " "

LBRACKET == "["

RBRACKET == "]"

JUNK == "junk"

\* the marker phrase of the gate pattern, src/eval/eval_res.py:109
\* (the phrase "shi fou cun zai wen ti" followed by a full-width colon)
MARK == "shifou-cunzai-wenti:"

\* the "problem exists" token ("shi"), src/eval/eval_res.py:112
YES == "shi"

\* the "no problem" token ("fou")
NO == "fou"

\* the keys of an issue record, src/eval/eval_res.py:176 and :183
\* ("wen ti yan zhong cheng du": severity; "pan duan jie guo": verdict)
KEY_SEVERITY == "wenti-yanzhong-chengdu"

KEY_VERDICT == "panduan-jieguo"

\* [^\s] matches one character: the marker phrase itself begins with the
\* character "shi", every other token is its own first character
FirstChar(tok) == IF tok = MARK THEN YES ELSE tok

\* str.strip() and the \s* of the patterns: leading and trailing whitespace
RECURSIVE LStrip(_)
LStrip(toks) ==
    IF toks # <<>> /\ Head(toks) = WS THEN LStrip(Tail(toks)) ELSE toks

RECURSIVE RStrip(_)
RStrip(toks) ==
    IF toks # <<>> /\ toks[Len(toks)] = WS
    THEN RStrip(SubSeq(toks, 1, Len(toks) - 1))
    ELSE toks

Strip(toks) == RStrip(LStrip(toks))

SetMin(S) == CHOOSE m \in S : \A n \in S : m <= n

Range(f) == {f[i] : i \in DOMAIN f}

(***************************************************************************)
(* extract_json_string: re.search for a fence, an optional json tag,       *)
(* optional whitespace, the shortest body, optional whitespace, a fence.   *)
(* It returns the stripped body of the first fenced block, the text itself *)
(* when there is no closed fence; re.search raises TypeError on None.      *)
(***************************************************************************)
extract_json_string(text) ==
    IF text.py # "str" THEN Raise("TypeError", "extract_json_string")
    ELSE LET toks == text.s
             fences == {i \in 1..Len(toks) : toks[i] = FENCE}
         IN IF Cardinality(fences) < 2 THEN text
            ELSE LET open == SetMin(fences)
                     close == SetMin(fences \ {open})
                     inner == SubSeq(toks, open + 1, close - 1)
                     body == IF inner # <<>> /\ Head(inner) = JSONTAG
                             THEN Tail(inner) ELSE inner
                 IN Str(Strip(body))

(***************************************************************************)
(* json.loads on the texts of the model: a JSON array of issue objects is  *)
(* "[" item ... "]"; each item token is one JSON object.                   *)
(***************************************************************************)
ItemOf(tok) ==
    CASE tok = "{sev:none}"      -> (KEY_SEVERITY :> "zhengti-wu-wenti")
      [] tok = "{sev:major}"     -> (KEY_SEVERITY :> "Major")
      [] tok = "{sev:critical}"  -> (KEY_SEVERITY :> "Critical")
      [] tok = "{sev:extreme}"   -> (KEY_SEVERITY :> "Extremely Critical")
      [] tok = "{sev:putong}"    -> (KEY_SEVERITY :> "putong")
      [] tok = "{sev:yanzhong}"  -> (KEY_SEVERITY :> "yanzhong")
      [] tok = "{sev:feichang}"  -> (KEY_SEVERITY :> "feichang-yanzhong")
      [] tok = "{sev:issue}"     -> (KEY_SEVERITY :> "you-wenti")
      [] tok = "{sev:noissue}"   -> (KEY_SEVERITY :> "wu-wenti")
      [] tok = "{sev:unknown}"   -> (KEY_SEVERITY :> "unheard-of")
      [] tok = "{res:wrong}"     -> (KEY_VERDICT :> "cuowu")
      [] tok = "{res:right}"     -> (KEY_VERDICT :> "zhengque")
      [] tok = "{note}"          -> ("explanation" :> "free text")

ItemTokens ==
    {"{sev:none}", "{sev:major}", "{sev:critical}", "{sev:extreme}",
     "{sev:putong}", "{sev:yanzhong}", "{sev:feichang}",
     "{sev:issue}", "{sev:noissue}", "{sev:unknown}", "{res:wrong}",
     "{res:right}", "{note}"}

\* JSON texts that are no array: null, a number, a string of two
\* characters, and (any item token on its own) an object
NULL == "null"

NUMBER == "7"

QUOTED == "\"ok\""

PyInt(n) == [py |-> "int", n |-> n]

Dict(d) == [py |-> "dict", d |-> d]

json_loads(v) ==
    IF v.py # "str" THEN Raise("TypeError", "json.loads")
    ELSE LET toks == Strip(v.s)
             n == Len(toks)
         IN IF /\ n >= 2
               /\ toks[1] = LBRACKET
               /\ toks[n] = RBRACKET
               /\ \A i \in 2..(n - 1) : toks[i] \in ItemTokens
            THEN List([i \in 1..(n - 2) |-> ItemOf(toks[i + 1])])
            ELSE IF n = 1 /\ toks[1] = NULL THEN None
            ELSE IF n = 1 /\ toks[1] = NUMBER THEN PyInt(7)
            ELSE IF n = 1 /\ toks[1] = QUOTED THEN Str(<<"o", "k">>)
            ELSE IF n = 1 /\ toks[1] \in ItemTokens THEN Dict(ItemOf(toks[1]))
            ELSE Raise("JSONDecodeError", "json.loads")

(***************************************************************************)
(* The gate pattern of metrics:                                            *)
(*   re.search(marker, optional whitespace, one non-whitespace character)  *)
(* the leftmost marker that is followed, after optional whitespace, by a   *)
(* non-whitespace character; group(1) is that character.                   *)
(***************************************************************************)
GateHits(toks) ==
    {i \in 1..Len(toks) :
        /\ toks[i] = MARK
        /\ \E j \in (i + 1)..Len(toks) : toks[j] # WS}

GateGroup(toks) ==
    LET i == SetMin(GateHits(toks))
        j == SetMin({k \in (i + 1)..Len(toks) : toks[k] # WS})
    IN FirstChar(toks[j])

\* lines 109-112: match and match.group(1) == "shi"
GateProblem(instruct_res) ==
    /\ GateHits(instruct_res.s) # {}
    /\ GateGroup(instruct_res.s) = YES

(***************************************************************************)
(* calculate_score, src/eval/eval_res.py:138-209.                          *)
(***************************************************************************)
\* the table with the penalty of the worst severity halved
ACCURACY_MAPPING_MILD ==
    ("zhengti-wu-wenti" :> 0) @@
    ("putong" :> -5) @@ ("Major" :> -5) @@
    ("yanzhong" :> -10) @@ ("Critical" :> -10) @@
    ("feichang-yanzhong" :> -25) @@ ("Extremely Critical" :> -25)

ACCURACY_MAPPING ==
    ("zhengti-wu-wenti" :> 0) @@
    ("putong" :> -5) @@ ("Major" :> -5) @@
    ("yanzhong" :> -10) @@ ("Critical" :> -10) @@
    ("feichang-yanzhong" :> -50) @@ ("Extremely Critical" :> -50)

CORRECTNESS_MAPPING == ("cuowu" :> -5) @@ ("zhengque" :> 0)

FLUENCY_MAPPING ==
    ("wu-wenti" :> 0) @@ ("you-wenti" :> -2) @@ ("zhengti-wu-wenti" :> 0)

APPROPIATE_MAPPING ==
    ("wu-wenti" :> 0) @@ ("you-wenti" :> -5) @@ ("zhengti-wu-wenti" :> 0)

\* one iteration of a scoring loop: the penalty of the table when the item has
\* the key and its value is in the table, the default otherwise
Penalty(item, key, mapping, default) ==
    IF key \in DOMAIN item /\ item[key] \in DOMAIN mapping
    THEN mapping[item[key]]
    ELSE default

RECURSIVE SumPenalty(_, _, _, _)
SumPenalty(items, key, mapping, default) ==
    IF items = <<>> THEN 0
    ELSE Penalty(Head(items), key, mapping, default)
         + SumPenalty(Tail(items), key, mapping, default)

AccStart == 60

FluStart == 20

AppropiateStart == 20

\* "for item in v": the elements of a list, the keys of a dict, the
\* characters of a str; None and a number are not iterable
Iterable(v) == v.py \in {"list", "dict", "str"}

\* the keys of the objects of the model, in a fixed order
KeysOf(d) ==
    IF KEY_SEVERITY \in DOMAIN d THEN <<KEY_SEVERITY>>
    ELSE IF KEY_VERDICT \in DOMAIN d THEN <<KEY_VERDICT>>
    ELSE <<"explanation">>

Items(v) ==
    CASE v.py = "list" -> v.l
      [] v.py = "dict" -> [i \in DOMAIN KeysOf(v.d) |-> Str(<<KeysOf(v.d)[i]>>)]
      [] v.py = "str"  -> [i \in DOMAIN v.s |-> Str(<<v.s[i]>>)]

\* key in item and item[key]: on an item that is a str holding the key,
\* the subscript raises TypeError (on a str without it, "in" is False)
SubscriptRaises(items, key) ==
    \E i \in DOMAIN items :
        /\ "py" \in DOMAIN items[i]
        /\ items[i].py = "str"
        /\ key \in Range(items[i].s)

calculate_score(acc, ckpt, flu, appropiate) ==
    IF \/ \E a \in {acc, ckpt, flu, appropiate} : ~Iterable(a)
       \/ SubscriptRaises(Items(acc), KEY_SEVERITY)
       \/ SubscriptRaises(Items(ckpt), KEY_VERDICT)
       \/ SubscriptRaises(Items(flu), KEY_SEVERITY)
       \/ SubscriptRaises(Items(appropiate), KEY_SEVERITY)
    THEN Raise("TypeError", "calculate_score")
    ELSE
    LET acc_score ==
            Max(AccStart
                + SumPenalty(Items(acc), KEY_SEVERITY, ACCURACY_MAPPING, -5)
                + SumPenalty(Items(ckpt), KEY_VERDICT, CORRECTNESS_MAPPING, 0), 0)
        flu_score ==
            Max(FluStart
                + SumPenalty(Items(flu), KEY_SEVERITY, FLUENCY_MAPPING, 0), 0)
        appropiate_score ==
            Max(AppropiateStart
                + SumPenalty(Items(appropiate), KEY_SEVERITY,
                             APPROPIATE_MAPPING, 0), 0)
    IN Tuple(<<acc_score, flu_score, appropiate_score>>)

\* sum(scores), src/eval/eval_res.py:135
SumScores(scores) == scores.l[1] + scores.l[2] + scores.l[3]


(***************************************************************************)
(* The state.                                                              *)
(*   Inputs of a run (command line, src/run_tasks.py:158-173):             *)
(*     model, judgemodel, concurrency, tasks_arg (the loaded task list)    *)
(*   Process state of run_all_sync (src/run_tasks.py:59-155):              *)
(*     phase     "none" (no process), "running", "done" (returned)         *)
(*     tasks     the task list after the resume filter                     *)
(*     results, last_run, jsonl_file, final_file, completed_counter        *)
(*     already_run_data  the identifiers read from the checkpoint          *)
(*     queue     work items of the ThreadPoolExecutor not yet taken        *)
(*     futures   result of each submitted task, Pending until it returns   *)
(*     yielded   futures that as_completed has already handed out          *)
(*     pipe      per worker thread: the position and locals of the         *)
(*               wrapped_run / run_task / metrics call it executes         *)
(*   The world outside the process:                                        *)
(*     dir       the results directory, file name -> creation time, content*)
(*     clock     the wall clock (one tick per process start)               *)
(*     runs      number of processes started so far                        *)
(***************************************************************************)
VARIABLES model, judgemodel, concurrency, tasks_arg,
          phase, tasks, results, last_run, jsonl_file, final_file,
          completed_counter, already_run_data, queue, futures, yielded,
          pipe, dir, clock, runs

inputs == <<model, judgemodel, concurrency, tasks_arg>>

locals == <<tasks, results, last_run, jsonl_file, final_file,
            already_run_data>>

pool == <<queue, futures, yielded, pipe, completed_counter>>

world == <<dir, clock, runs>>

vars == <<inputs, phase, locals, pool, world>>

TaskIds == 1..MaxTasks

Workers == 1..MaxConcurrency

\* a future whose callable has not returned yet
Pending == [py |-> "pending"]

(***************************************************************************)
(* ModelInvoker (litellm_generate, src/runs/run.py:11-68): the generated   *)
(* text, or None on any failure of the call.  What a model can answer is   *)
(* a property of the model, given per model identifier.                    *)
(***************************************************************************)
\* a candidate endpoint whose calls can fail
CANDIDATE_FLAKY == <<"f">>

\* the candidate model, called at src/run_tasks.py:37
CandidateReplies(m) ==
    IF m = CANDIDATE_FLAKY THEN {None, Str(<<"translation">>)}
    ELSE {Str(<<"translation">>)}

\* a judge that answers from the whole vocabulary
JUDGE_FULL == "judge-full"

\* a judge whose every answer, when it answers well-formed, is "no issue"
JUDGE_TERSE == "judge-terse"

\* a judge whose final judgments are valid JSON of any kind
JUDGE_LOOSE == "judge-loose"

\* answers to the instruction-following prompt (instruct_sp, instruct_up)
GateReplies(j) ==
    IF j = JUDGE_FULL
    THEN {None, Str(<<MARK, YES>>), Str(<<MARK, WS, NO>>), Str(<<JUNK>>),
          Str(<<FENCE, JUNK, MARK, YES, FENCE>>),
          Str(<<>>), Str(<<MARK, MARK, NO>>)}
    ELSE {None, Str(<<MARK, YES>>), Str(<<MARK, NO>>)}

\* the issue a judge of each dimension reports
IssueToken(stage) ==
    CASE stage \in {"judge_accuracy", "final_accuracy"}       -> "{sev:extreme}"
      [] stage \in {"judge_checkpoint", "final_checkpoints"}  -> "{res:wrong}"
      [] stage \in {"judge_fluency", "final_fluency"}         -> "{sev:issue}"
      [] stage \in {"judge_appropiate", "final_appropiate"}   -> "{sev:issue}"

\* answers to a dimension prompt or a final-judgment prompt
JudgeReplies(j, stage) ==
    IF j = JUDGE_FULL
    THEN {None, Str(<<JUNK>>),
          Str(<<FENCE, JSONTAG, WS, LBRACKET, RBRACKET, WS, FENCE>>),
          Str(<<LBRACKET, IssueToken(stage), RBRACKET>>)}
    ELSE IF /\ j = JUDGE_LOOSE
            /\ stage \in {"final_accuracy", "final_appropiate",
                          "final_checkpoints", "final_fluency"}
    THEN {Str(<<LBRACKET, RBRACKET>>), Str(<<NULL>>), Str(<<NUMBER>>),
          Str(<<QUOTED>>), Str(<<IssueToken(stage)>>)}
    ELSE {None, Str(<<LBRACKET, RBRACKET>>)}

\* answers to the self-critique prompt
CritiqueReplies(j) == {None, Str(<<"adjustment">>)}

(***************************************************************************)
(* The stages of run_task and metrics, in program order: one ModelInvoker  *)
(* call site each, and the score computation.                              *)
(***************************************************************************)
DimStages ==
    <<"judge_accuracy", "judge_checkpoint", "judge_fluency", "judge_appropiate">>

FinalStages ==
    <<"final_accuracy", "final_appropiate", "final_checkpoints", "final_fluency">>

StageOrder ==
    <<"litellm_generate", "instruct">> \o DimStages
        \o <<"self_critique_judge">> \o FinalStages \o <<"calculate_score">>

StageIndex(stage) == CHOOSE i \in DOMAIN StageOrder : StageOrder[i] = stage

NextStage(stage) == StageOrder[StageIndex(stage) + 1]

\* the stages whose call has returned when control is at stage
Before(stage) ==
    {StageOrder[i] : i \in 1..(StageIndex(stage) - 1)}

\* retries=3, the default of the wrapper of safe_json_call
Retries == 3

\* the locals of one wrapped_run(task) call and of the calls below it
IdlePipe ==
    [pc |-> "idle", task |-> 0, attempt |-> 0, res |-> Unset,
     kwargs |-> Unset, called |-> {},
     output |-> Unset, instruct_res |-> Unset,
     acc_res |-> Unset, ckpt_res |-> Unset, flu_res |-> Unset,
     appropiate_res |-> Unset, adjustment_res |-> Unset,
     acc_finalres |-> Unset, appropiate_finalres |-> Unset,
     ckpt_finalres |-> Unset, flu_finalres |-> Unset]

\* the local variable a judge stage assigns, src/eval/eval_res.py:116-126
SetLocal(p, stage, v) ==
    CASE stage = "judge_accuracy"    -> [p EXCEPT !.acc_res = v]
      [] stage = "judge_checkpoint"  -> [p EXCEPT !.ckpt_res = v]
      [] stage = "judge_fluency"     -> [p EXCEPT !.flu_res = v]
      [] stage = "judge_appropiate"  -> [p EXCEPT !.appropiate_res = v]
      [] stage = "final_accuracy"    -> [p EXCEPT !.acc_finalres = v]
      [] stage = "final_appropiate"  -> [p EXCEPT !.appropiate_finalres = v]
      [] stage = "final_checkpoints" -> [p EXCEPT !.ckpt_finalres = v]
      [] stage = "final_fluency"     -> [p EXCEPT !.flu_finalres = v]

\* the local variable a judge stage assigns, read back
Local(p, stage) ==
    CASE stage = "judge_accuracy"    -> p.acc_res
      [] stage = "judge_checkpoint"  -> p.ckpt_res
      [] stage = "judge_fluency"     -> p.flu_res
      [] stage = "judge_appropiate"  -> p.appropiate_res
      [] stage = "final_accuracy"    -> p.acc_finalres
      [] stage = "final_appropiate"  -> p.appropiate_finalres
      [] stage = "final_checkpoints" -> p.ckpt_finalres
      [] stage = "final_fluency"     -> p.flu_finalres

\* the final judges and the score fed from the wrong judgments
KwargsOfInitial(p, stage) ==
    CASE stage = "litellm_generate" ->
            [prompt |-> p.task]
      [] stage = "instruct" ->
            [prompt |-> p.task, response |-> p.output]
      [] stage \in Range(DimStages) ->
            [ori_text |-> p.task, response |-> p.output]
      [] stage = "self_critique_judge" ->
            [accuracy_judge_result |-> p.acc_res,
             fluency_judge_result |-> p.flu_res,
             checkpoints_judge_result |-> p.ckpt_res,
             style_judge_result |-> p.appropiate_res]
      [] stage = "final_accuracy" ->
            [accuracy_judge_result |-> p.acc_res,
             adjustment |-> p.adjustment_res]
      [] stage = "final_appropiate" ->
            [style_judge_result |-> p.appropiate_res,
             adjustment |-> p.adjustment_res]
      [] stage = "final_checkpoints" ->
            [checkpoints_judge_result |-> p.ckpt_res,
             adjustment |-> p.adjustment_res]
      [] stage = "final_fluency" ->
            [fluency_judge_result |-> p.flu_res,
             adjustment |-> p.adjustment_res]
      [] stage = "calculate_score" ->
            [acc |-> p.acc_res, ckpt |-> p.ckpt_res,
             flu |-> p.flu_res, appropiate |-> p.appropiate_res]

\* the keyword arguments of the call of each stage,
\* src/run_tasks.py:37 and src/eval/eval_res.py:107-126
\* (the prompt templates of eval.prompts are formatted with them; the
\* templates name the same keywords, so formatting does not fail)
KwargsOf(p, stage) ==
    CASE stage = "litellm_generate" ->
            [prompt |-> p.task]
      [] stage = "instruct" ->
            [prompt |-> p.task, response |-> p.output]
      [] stage \in Range(DimStages) ->
            [ori_text |-> p.task, response |-> p.output]
      [] stage = "self_critique_judge" ->
            [accuracy_judge_result |-> p.acc_res,
             fluency_judge_result |-> p.flu_res,
             checkpoints_judge_result |-> p.ckpt_res,
             style_judge_result |-> p.appropiate_res]
      [] stage = "final_accuracy" ->
            [accuracy_judge_result |-> p.acc_res,
             adjustment |-> p.adjustment_res]
      [] stage = "final_appropiate" ->
            [style_judge_result |-> p.appropiate_res,
             adjustment |-> p.adjustment_res]
      [] stage = "final_checkpoints" ->
            [checkpoints_judge_result |-> p.ckpt_res,
             adjustment |-> p.adjustment_res]
      [] stage = "final_fluency" ->
            [fluency_judge_result |-> p.flu_res,
             adjustment |-> p.adjustment_res]
      [] stage = "calculate_score" ->
            [acc |-> p.acc_finalres, ckpt |-> p.ckpt_finalres,
             flu |-> p.flu_finalres, appropiate |-> p.appropiate_finalres]

\* control reaches `stage`: its arguments are evaluated, and the wrapper of
\* a judge starts with res = None and its first attempt
Enter(p, stage) ==
    [p EXCEPT !.pc = stage,
              !.kwargs = KwargsOf(p, stage),
              !.attempt = IF stage \in Range(DimStages) \cup Range(FinalStages)
                          THEN 1 ELSE 0,
              !.res = IF stage \in Range(DimStages) \cup Range(FinalStages)
                      THEN None ELSE Unset]

\* eval_result_by_llm, src/eval/eval_res.py:36-42, on the invoker's reply
eval_result_by_llm(reply) == extract_json_string(reply)

\* judge_accuracy, judge_checkpoint, judge_fluency, judge_appropiate and
\* final_judge before decoration: any exception becomes None
JudgeFunc(reply) ==
    LET r == eval_result_by_llm(reply)
    IN IF IsRaise(r) THEN None ELSE r

(***************************************************************************)
(* What wrapped_run returns, src/run_tasks.py:114-126 and 40-45.           *)
(***************************************************************************)
\* an except clause that gives the failed task a score of 0
ErrorRecordScored(exc, stage) ==
    [error |-> exc.e, traceback |-> <<stage, exc.at>>, score |-> 0]

\* the except clause: {"error": str(e), "traceback": traceback.format_exc()};
\* the traceback names the line of metrics the exception passed through
\* and the call that raised it
ErrorRecord(exc, stage) == [error |-> exc.e, traceback |-> <<stage, exc.at>>]

\* run_task lines 40-45 (of the task's own fields only prompt_id is kept)
RunRecord(p, judge_res, final_score, detailed_judgement) ==
    [prompt_id |-> p.task, model_output |-> p.output,
     domain_score |-> judge_res, score |-> final_score,
     detailed_judgement |-> detailed_judgement]

\* metrics lines 106-113: the return of the short-circuit
GateDetail(p, instruct_res) == ("instruction_following" :> instruct_res)

\* metrics lines 128-133
FullDetail(p) ==
    ("instruction_following" :> p.instruct_res) @@
    ("initial_judgement" :>
        [accuracy |-> p.acc_res, checkpoints |-> p.ckpt_res,
         fluency |-> p.flu_res, appropiate |-> p.appropiate_res]) @@
    ("self_critique" :> p.adjustment_res) @@
    ("accuracy" :> p.acc_finalres) @@
    ("checkpoints" :> p.ckpt_finalres) @@
    ("fluency" :> p.flu_finalres) @@
    ("appropiate" :> p.appropiate_finalres)

\* wrapped_run without its try: the exception ends the call with no result
\* for the loop of the main thread to collect
ReturnLost(w, res) ==
    IF IsRaise(res)
    THEN /\ pipe' = [pipe EXCEPT ![w] = IdlePipe]
         /\ UNCHANGED <<futures, completed_counter>>
    ELSE /\ futures' = [futures EXCEPT ![pipe[w].task] = res]
         /\ completed_counter' = completed_counter + 1
         /\ pipe' = [pipe EXCEPT ![w] = IdlePipe]

\* wrapped_run lines 117-126 once run_task has returned res or raised:
\* the future gets the result, the counter is incremented under the lock,
\* and the thread is free for the next work item
Return(w, res) ==
    LET out == IF IsRaise(res) THEN ErrorRecord(res, pipe[w].pc)
               ELSE IF "error" \in DOMAIN res
                    THEN ErrorRecord(Raise("Unsupport task", "wrapped_run"),
                                     "wrapped_run")
                    ELSE res
    IN /\ futures' = [futures EXCEPT ![pipe[w].task] = out]
       /\ completed_counter' = completed_counter + 1
       /\ pipe' = [pipe EXCEPT ![w] = IdlePipe]

Running(w) == phase = "running" /\ pipe[w].pc # "idle"

(***************************************************************************)
(* run_task line 37: the candidate answer.  litellm_generate returns None  *)
(* on failure; run_task passes whatever it got on to metrics.              *)
(***************************************************************************)
Generate(w) ==
    /\ Running(w) /\ pipe[w].pc = "litellm_generate"
    /\ \E reply \in CandidateReplies(model) :
          pipe' = [pipe EXCEPT ![w] =
                      Enter([@ EXCEPT !.output = reply,
                                      !.called = @ \cup {"litellm_generate"}],
                            "instruct")]
    /\ UNCHANGED <<inputs, phase, locals, queue, futures, yielded,
                   completed_counter, world>>

(***************************************************************************)
(* metrics lines 106-113: the instruction-following gate.                  *)
(***************************************************************************)
\* metrics without the early return of lines 110-113
metrics_gate_no_return(p, reply) ==
    LET instruct_res == eval_result_by_llm(reply)
    IN IF IsRaise(instruct_res)
       THEN [do |-> "raise", exc |-> instruct_res]
       ELSE [do |-> "continue", instruct_res |-> instruct_res]

\* what metrics does with the invoker's reply to the gate prompt: the
\* exception of eval_result_by_llm propagates; a match of the pattern with
\* the "problem exists" token returns (0,0,0), 0 and the gate result alone;
\* anything else goes on to the dimension judges
metrics_gate(p, reply) ==
    LET instruct_res == eval_result_by_llm(reply)
    IN IF IsRaise(instruct_res)
       THEN [do |-> "raise", exc |-> instruct_res]
       ELSE IF GateProblem(instruct_res)
       THEN [do |-> "return",
             value |-> RunRecord(p, Tuple(<<0, 0, 0>>), 0,
                                 GateDetail(p, instruct_res))]
       ELSE [do |-> "continue", instruct_res |-> instruct_res]

Instruct(w) ==
    /\ Running(w) /\ pipe[w].pc = "instruct"
    /\ \E reply \in GateReplies(judgemodel) :
          LET p == [pipe[w] EXCEPT !.called = @ \cup {"instruct"}]
              gate == metrics_gate(p, reply)
          IN CASE gate.do = "raise" -> Return(w, gate.exc)
               [] gate.do = "return" -> Return(w, gate.value)
               [] gate.do = "continue" ->
                    /\ pipe' = [pipe EXCEPT ![w] =
                          Enter([p EXCEPT !.instruct_res = gate.instruct_res],
                                "judge_accuracy")]
                    /\ UNCHANGED <<futures, completed_counter>>
    /\ UNCHANGED <<inputs, phase, locals, queue, yielded, world>>

(***************************************************************************)
(* The wrapper of safe_json_call (lines 23-32) around a dimension judge or *)
(* a final judge.  attempt is the loop variable; attempt > Retries is the  *)
(* loop run out, before "return []".                                       *)
(***************************************************************************)
\* the wrapper without its except clause: the exception of json.loads
\* leaves the wrapper
safe_json_call_reraise(reply) ==
    LET res == JudgeFunc(reply)
        parsed == json_loads(res)
    IN IF IsRaise(parsed)
       THEN [do |-> "raise", exc |-> parsed]
       ELSE [do |-> "return", value |-> parsed]

\* lines 26-30, one iteration: res = func(...); return json.loads(res);
\* any Exception is caught and logged, and the loop goes on
safe_json_call(reply) ==
    LET res == JudgeFunc(reply)
        parsed == json_loads(res)
    IN IF IsRaise(parsed)
       THEN [do |-> "except", res |-> res]
       ELSE [do |-> "return", value |-> parsed]

\* the loop of range(1, retries + 2): one attempt too many
LoopOverLate(attempt) == attempt > Retries + 1

\* line 25: for attempt in range(1, retries + 1)
LoopOver(attempt) == attempt > Retries

\* line 32: return []
ExhaustedValue == List(<<>>)

JudgeStages == Range(DimStages) \cup Range(FinalStages)

JudgeAttempt(w) ==
    /\ Running(w)
    /\ pipe[w].pc \in JudgeStages
    /\ ~LoopOver(pipe[w].attempt)
    /\ \E reply \in JudgeReplies(judgemodel, pipe[w].pc) :
          LET stage == pipe[w].pc
              p == [pipe[w] EXCEPT !.called = @ \cup {stage}]
              it == safe_json_call(reply)
          IN CASE it.do = "return" ->
                    /\ pipe' = [pipe EXCEPT ![w] =
                          Enter(SetLocal(p, stage, it.value), NextStage(stage))]
                    /\ UNCHANGED <<futures, completed_counter>>
               [] it.do = "except" ->
                    /\ pipe' = [pipe EXCEPT ![w] =
                          [p EXCEPT !.attempt = @ + 1, !.res = it.res]]
                    /\ UNCHANGED <<futures, completed_counter>>
               \* an exception the wrapper does not catch (none: the
               \* clause is "except Exception")
               [] it.do = "raise" ->
                    Return(w, it.exc)
    /\ UNCHANGED <<inputs, phase, locals, queue, yielded, world>>

JudgeExhausted(w) ==
    /\ Running(w)
    /\ pipe[w].pc \in JudgeStages
    /\ LoopOver(pipe[w].attempt)
    /\ pipe' = [pipe EXCEPT ![w] =
                  Enter(SetLocal(@, @.pc, ExhaustedValue), NextStage(@.pc))]
    /\ UNCHANGED <<inputs, phase, locals, queue, futures, yielded,
                   completed_counter, world>>

(***************************************************************************)
(* metrics line 121: self_critique_judge, one call outside any wrapper.    *)
(***************************************************************************)
SelfCritique(w) ==
    /\ Running(w) /\ pipe[w].pc = "self_critique_judge"
    /\ \E reply \in CritiqueReplies(judgemodel) :
          LET p == [pipe[w] EXCEPT !.called = @ \cup {"self_critique_judge"}]
              adjustment_res == eval_result_by_llm(reply)
          IN IF IsRaise(adjustment_res)
             THEN Return(w, adjustment_res)
             ELSE /\ pipe' = [pipe EXCEPT ![w] =
                                Enter([p EXCEPT !.adjustment_res = adjustment_res],
                                      "final_accuracy")]
                  /\ UNCHANGED <<futures, completed_counter>>
    /\ UNCHANGED <<inputs, phase, locals, queue, yielded, world>>

(***************************************************************************)
(* metrics lines 127-135, run_task lines 40-45: the score and the record.  *)
(***************************************************************************)
Score(w) ==
    /\ Running(w) /\ pipe[w].pc = "calculate_score"
    /\ LET p == pipe[w]
           scores == calculate_score(p.kwargs.acc, p.kwargs.ckpt,
                                     p.kwargs.flu, p.kwargs.appropiate)
       IN IF IsRaise(scores)
          THEN Return(w, scores)
          ELSE Return(w, RunRecord(p, scores, SumScores(scores), FullDetail(p)))
    /\ UNCHANGED <<inputs, phase, locals, queue, yielded, world>>

Step(w) ==
    \/ Generate(w)
    \/ Instruct(w)
    \/ JudgeAttempt(w)
    \/ JudgeExhausted(w)
    \/ SelfCritique(w)
    \/ Score(w)

(***************************************************************************)
(* The results directory.  A file name is a sequence of tokens:            *)
(*   <time> - <modelname...> - <tasksname> partial .jsonl                  *)
(*   <time> - <modelname...> - <tasksname> result .json                    *)
(* src/run_tasks.py:101-102.  A model identifier is a sequence of          *)
(* characters.                                                             *)
(***************************************************************************)
\* model.replace("/", "-"), src/run_tasks.py:77
Sanitize(m) == [i \in DOMAIN m |-> IF m[i] = "/" THEN "-" ELSE m[i]]

\* tasks[0].__class__.__name__, src/run_tasks.py:78 and src/dataset/data.py:13
TasksName == "DISCOX"

\* now.strftime(...), src/run_tasks.py:97: one token per clock value
TimeTok(t) ==
    <<"t1", "t2", "t3", "t4", "t5", "t6", "t7", "t8", "t9">>[t]

\* os.path.join(output_dir, f"{formatted_time}-{modelname}-{tasksname}partial.jsonl")
PartialName(time, modelname, tasksname) ==
    Str(<<TimeTok(time), "-">> \o modelname
            \o <<"-", tasksname, "partial", ".jsonl">>)

\* os.path.join(output_dir, f"{formatted_time}-{modelname}-{tasksname}result.json")
ResultName(time, modelname, tasksname) ==
    Str(<<TimeTok(time), "-">> \o modelname
            \o <<"-", tasksname, "result", ".json">>)

\* last_run.replace("partial.jsonl", "result.json"), src/run_tasks.py:105
RECURSIVE ReplaceToks(_)
ReplaceToks(toks) ==
    IF Len(toks) < 2 THEN toks
    ELSE IF toks[1] = "partial" /\ toks[2] = ".jsonl"
         THEN <<"result", ".json">> \o ReplaceToks(SubSeq(toks, 3, Len(toks)))
         ELSE <<toks[1]>> \o ReplaceToks(Tail(toks))

ReplaceSuffix(name) == Str(ReplaceToks(name.s))

OccursAt(sub, seq, i) ==
    /\ i + Len(sub) - 1 <= Len(seq)
    /\ SubSeq(seq, i, i + Len(sub) - 1) = sub

\* glob "*{modelname}*{taskname}*.jsonl", src/run_tasks.py:50
GlobMatch(name, modelname, taskname) ==
    LET toks == name.s
    IN \E i \in 1..Len(toks) :
          /\ OccursAt(modelname, toks, i)
          /\ \E j \in (i + Len(modelname))..Len(toks) :
                /\ OccursAt(<<taskname>>, toks, j)
                /\ j < Len(toks)
                /\ toks[Len(toks)] = ".jsonl"

\* get_latest_jsonl_file, src/run_tasks.py:48-56: the matching file with
\* the greatest os.path.getctime, None when there is none
get_latest_jsonl_file(d, modelname, taskname) ==
    LET all_files == {n \in DOMAIN d : GlobMatch(n, modelname, taskname)}
    IN IF all_files = {} THEN None
       ELSE CHOOSE n \in all_files :
               \A o \in all_files : d[o].ctime <= d[n].ctime

(***************************************************************************)
(* JSON on disk.  json.dumps writes a tuple as an array, so a record read  *)
(* back from the checkpoint carries its domain_score as a list.            *)
(***************************************************************************)
json_dumps(rec) ==
    IF "domain_score" \in DOMAIN rec
    THEN [rec EXCEPT !.domain_score = List(@.l)]
    ELSE rec

\* [json.loads(line)["prompt_id"] for line in lines if "prompt_id" in ...]
RECURSIVE PromptIds(_)
PromptIds(lines) ==
    IF lines = <<>> THEN <<>>
    ELSE (IF "prompt_id" \in DOMAIN Head(lines)
          THEN <<Head(lines).prompt_id>> ELSE <<>>) \o PromptIds(Tail(lines))

\* a resume by position: as many tasks skipped as identifiers were read
FilterTasksByCount(ts, done) ==
    SubSeq(ts, Len(done) + 1, Len(ts))

\* [task for task in tasks if task.prompt_id not in already_run_data]
RECURSIVE FilterTasks(_, _)
FilterTasks(ts, done) ==
    IF ts = <<>> THEN <<>>
    ELSE (IF Head(ts) \in Range(done) THEN <<>> ELSE <<Head(ts)>>)
         \o FilterTasks(Tail(ts), done)

\* the task lists a task file can hold: identifiers are unique in a list
TaskLists ==
    {ts \in UNION {[1..n -> TaskIds] : n \in 1..MaxTasks} :
        \A i, j \in DOMAIN ts : i < j => ts[i] < ts[j]}

\* the identifiers of the candidate models given on the command line
Models == {<<"m">>}

\* the judge of the runs of the task runner
RunJudges == {JUDGE_TERSE}

(***************************************************************************)
(* run_all_sync lines 74-131: the resume decision, the output files and    *)
(* the submission of every remaining task to the pool.                     *)
(***************************************************************************)
\* lines 80-92: <<last_run, tasks, results, already_run_data>>
ResumeDecision(d, found, ts) ==
    IF found = None
    THEN [last_run |-> None, tasks |-> ts, results |-> <<>>,
          already_run_data |-> <<>>]
    ELSE LET lines == d[found].lines
             already == PromptIds(lines)
         IN IF Len(already) < Len(ts)
            THEN [last_run |-> found, tasks |-> FilterTasks(ts, already),
                  results |-> lines, already_run_data |-> already]
            ELSE [last_run |-> None, tasks |-> ts, results |-> <<>>,
                  already_run_data |-> already]

\* python run_tasks.py with a model among ms, a limit among ks and a task
\* file among tss
StartRunFor(ms, ks, tss) ==
    /\ phase \in {"none", "done"}
    /\ runs < MaxRuns
    /\ \E m \in ms, j \in RunJudges, k \in ks, ts \in tss :
          LET modelname == Sanitize(m)
              found == get_latest_jsonl_file(dir, modelname, TasksName)
              dec == ResumeDecision(dir, found, ts)
              now == clock + 1
          IN /\ model' = m
             /\ judgemodel' = j
             /\ concurrency' = k
             /\ tasks_arg' = ts
             /\ clock' = now
             /\ last_run' = dec.last_run
             /\ tasks' = dec.tasks
             /\ results' = dec.results
             /\ already_run_data' = dec.already_run_data
             /\ jsonl_file' = IF dec.last_run = None
                              THEN PartialName(now, modelname, TasksName)
                              ELSE dec.last_run
             /\ final_file' = IF dec.last_run = None
                              THEN ResultName(now, modelname, TasksName)
                              ELSE ReplaceSuffix(dec.last_run)
             /\ queue' = dec.tasks
             /\ futures' = [t \in Range(dec.tasks) |-> Pending]
    /\ phase' = "running"
    /\ runs' = runs + 1
    /\ completed_counter' = 0
    /\ yielded' = {}
    /\ pipe' = [w \in Workers |-> IdlePipe]
    /\ UNCHANGED dir

StartRun == StartRunFor(Models, 1..MaxConcurrency, TaskLists)

(***************************************************************************)
(* ThreadPoolExecutor(max_workers=concurrency): a free thread takes the    *)
(* oldest work item and calls wrapped_run(task).                           *)
(***************************************************************************)
\* a pool that starts a thread for every work item, whatever max_workers
WorkerTakeUnbounded(w) ==
    /\ phase = "running"
    /\ pipe[w].pc = "idle"
    /\ queue # <<>>
    /\ pipe' = [pipe EXCEPT ![w] =
                  Enter([IdlePipe EXCEPT !.task = Head(queue)],
                        "litellm_generate")]
    /\ queue' = Tail(queue)
    /\ UNCHANGED <<inputs, phase, locals, futures, yielded,
                   completed_counter, world>>

WorkerTake(w) ==
    /\ phase = "running"
    /\ w <= concurrency
    /\ pipe[w].pc = "idle"
    /\ queue # <<>>
    /\ pipe' = [pipe EXCEPT ![w] =
                  Enter([IdlePipe EXCEPT !.task = Head(queue)],
                        "litellm_generate")]
    /\ queue' = Tail(queue)
    /\ UNCHANGED <<inputs, phase, locals, futures, yielded,
                   completed_counter, world>>

(***************************************************************************)
(* run_all_sync lines 132-137: one iteration of the as_completed loop, in  *)
(* the main thread: the result of a finished future is appended to results *)
(* and, as one line, to the checkpoint file.                               *)
(***************************************************************************)
\* (written_for and written_by are not on disk: they record, for the
\* properties, the task lists and the model identifiers of the runs that
\* wrote the file)
\* the file opened with mode "w": the line replaces what was there
AppendLineTruncating(d, name, line, now, ts, m) ==
    IF name \in DOMAIN d
    THEN [d EXCEPT ![name] = [ctime |-> now, lines |-> <<line>>,
                              written_for |-> @.written_for \cup {ts},
                              written_by |-> @.written_by \cup {m}]]
    ELSE (name :> [ctime |-> now, lines |-> <<line>>, written_for |-> {ts},
                   written_by |-> {m}]) @@ d

AppendLine(d, name, line, now, ts, m) ==
    IF name \in DOMAIN d
    THEN [d EXCEPT ![name] = [ctime |-> now, lines |-> Append(@.lines, line),
                              written_for |-> @.written_for \cup {ts},
                              written_by |-> @.written_by \cup {m}]]
    ELSE (name :> [ctime |-> now, lines |-> <<line>>, written_for |-> {ts},
                   written_by |-> {m}]) @@ d

Collect(t) ==
    /\ phase = "running"
    /\ t \in DOMAIN futures
    /\ futures[t] # Pending
    /\ t \notin yielded
    /\ yielded' = yielded \cup {t}
    /\ results' = Append(results, futures[t])
    /\ dir' = AppendLine(dir, jsonl_file, json_dumps(futures[t]), clock,
                         tasks_arg, model)
    /\ UNCHANGED <<inputs, phase, tasks, last_run, jsonl_file, final_file,
                   already_run_data, queue, futures, pipe,
                   completed_counter, clock, runs>>

(***************************************************************************)
(* run_all_sync lines 139-155: the average and the final result file.      *)
(***************************************************************************)
\* a list comprehension without its filter: a record that has no score
\* counts as 0
RECURSIVE ValidScoresLoose(_)
ValidScoresLoose(rs) ==
    IF rs = <<>> THEN <<>>
    ELSE (IF "score" \in DOMAIN Head(rs) THEN <<Head(rs).score>> ELSE <<0>>)
         \o ValidScoresLoose(Tail(rs))

\* [v["score"] for v in results if "score" in v]
RECURSIVE ValidScores(_)
ValidScores(rs) ==
    IF rs = <<>> THEN <<>>
    ELSE (IF "score" \in DOMAIN Head(rs) THEN <<Head(rs).score>> ELSE <<>>)
         \o ValidScores(Tail(rs))

RECURSIVE SumSeq(_)
SumSeq(q) == IF q = <<>> THEN 0 ELSE Head(q) + SumSeq(Tail(q))

\* sum(valid) / (len(valid)*100) if valid else 0.0, as a fraction
Accuracy(rs) ==
    LET valid == ValidScores(rs)
    IN IF valid # <<>>
       THEN [num |-> SumSeq(valid), den |-> Len(valid) * 100]
       ELSE [num |-> 0, den |-> 1]

RECURSIVE DumpAll(_)
DumpAll(rs) ==
    IF rs = <<>> THEN <<>> ELSE <<json_dumps(Head(rs))>> \o DumpAll(Tail(rs))

Finalize ==
    /\ phase = "running"
    /\ yielded = DOMAIN futures
    /\ dir' = (final_file :>
                 [ctime |-> clock,
                  doc |-> [average_accuracy |-> Accuracy(results),
                           model |-> model,
                           detailed_results |-> DumpAll(results)]]) @@ dir
    /\ phase' = "done"
    /\ UNCHANGED <<inputs, locals, pool, clock, runs>>

(***************************************************************************)
(* The process is killed (or the machine stops) while the run is under     *)
(* way: everything in memory is lost, the directory stays as it is.        *)
(***************************************************************************)
Kill ==
    /\ phase = "running"
    /\ phase' = "none"
    /\ tasks' = <<>>
    /\ results' = <<>>
    /\ last_run' = None
    /\ jsonl_file' = None
    /\ final_file' = None
    /\ already_run_data' = <<>>
    /\ queue' = <<>>
    /\ futures' = <<>>
    /\ yielded' = {}
    /\ completed_counter' = 0
    /\ pipe' = [w \in Workers |-> IdlePipe]
    /\ UNCHANGED <<inputs, world>>

Init ==
    /\ model = <<"m">>
    /\ judgemodel = JUDGE_TERSE
    /\ concurrency = 1
    /\ tasks_arg = <<>>
    /\ phase = "none"
    /\ tasks = <<>>
    /\ results = <<>>
    /\ last_run = None
    /\ jsonl_file = None
    /\ final_file = None
    /\ completed_counter = 0
    /\ already_run_data = <<>>
    /\ queue = <<>>
    /\ futures = <<>>
    /\ yielded = {}
    /\ pipe = [w \in Workers |-> IdlePipe]
    /\ dir = <<>>
    /\ clock = 0
    /\ runs = 0

Next ==
    \/ StartRun
    \/ \E w \in Workers : WorkerTake(w)
    \/ \E w \in Workers : Step(w)
    \/ \E t \in TaskIds : Collect(t)
    \/ Finalize
    \/ Kill

Spec == Init /\ [][Next]_vars

(***************************************************************************)
(* A process that is never killed, scheduled fairly: a free pool thread    *)
(* takes the next work item, a ModelInvoker call returns (litellm_generate *)
(* has a timeout and catches every exception), and the main thread goes on *)
(* with its as_completed loop and the finalization.                        *)
(***************************************************************************)
NextLive ==
    \/ StartRun
    \/ \E w \in Workers : WorkerTake(w)
    \/ \E w \in Workers : Step(w)
    \/ \E t \in TaskIds : Collect(t)
    \/ Finalize

Fairness ==
    /\ \A w \in Workers : WF_vars(WorkerTake(w))
    /\ \A w \in Workers : WF_vars(Step(w))
    /\ \A t \in TaskIds : WF_vars(Collect(t))
    /\ WF_vars(Finalize)

LiveSpec == Init /\ [][NextLive]_vars /\ Fairness

(***************************************************************************)
(* One wrapped_run call on its own: task 1 on the only thread of the pool, *)
(* judged by the judge of the whole vocabulary.                            *)
(***************************************************************************)
InitMetrics ==
    /\ model = CANDIDATE_FLAKY
    /\ judgemodel = JUDGE_FULL
    /\ concurrency = 1
    /\ tasks_arg = <<1>>
    /\ phase = "running"
    /\ tasks = <<1>>
    /\ results = <<>>
    /\ last_run = None
    /\ jsonl_file = None
    /\ final_file = None
    /\ completed_counter = 0
    /\ already_run_data = <<>>
    /\ queue = <<>>
    /\ futures = (1 :> Pending)
    /\ yielded = {}
    /\ pipe = [w \in Workers |->
                 IF w = 1 THEN Enter([IdlePipe EXCEPT !.task = 1],
                                     "litellm_generate")
                 ELSE IdlePipe]
    /\ dir = <<>>
    /\ clock = 1
    /\ runs = 1

NextMetrics == \E w \in Workers : Step(w)

SpecMetrics == InitMetrics /\ [][NextMetrics]_vars

(***************************************************************************)
(* One wrapped_run call judged by the judge whose final judgments are      *)
(* valid JSON of any kind.                                                 *)
(***************************************************************************)
InitShapes ==
    /\ model = <<"m">>
    /\ judgemodel = JUDGE_LOOSE
    /\ concurrency = 1
    /\ tasks_arg = <<1>>
    /\ phase = "running"
    /\ tasks = <<1>>
    /\ results = <<>>
    /\ last_run = None
    /\ jsonl_file = None
    /\ final_file = None
    /\ completed_counter = 0
    /\ already_run_data = <<>>
    /\ queue = <<>>
    /\ futures = (1 :> Pending)
    /\ yielded = {}
    /\ pipe = [w \in Workers |->
                 IF w = 1 THEN Enter([IdlePipe EXCEPT !.task = 1],
                                     "litellm_generate")
                 ELSE IdlePipe]
    /\ dir = <<>>
    /\ clock = 1
    /\ runs = 1

SpecShapes == InitShapes /\ [][NextMetrics]_vars

(***************************************************************************)
(* Runs of one task for several candidate models, one after the other, in  *)
(* the same results directory: a model, a model served under a path of     *)
(* that name, and a model whose name has a dash where the other has the    *)
(* slash.                                                                  *)
(***************************************************************************)
SelectModels == {<<"m">>, <<"m", "/", "x">>, <<"m", "-", "x">>}

NextSelect ==
    \/ StartRunFor(SelectModels, {1}, {<<1>>})
    \/ \E w \in Workers : WorkerTake(w)
    \/ \E w \in Workers : Step(w)
    \/ \E t \in TaskIds : Collect(t)
    \/ Finalize
    \/ Kill

SpecSelect == Init /\ [][NextSelect]_vars

(***************************************************************************)
(* calculate_score on its own: a task whose four final judges have         *)
(* returned, at the call of line 127, for every choice of the four final   *)
(* judgments among the lists of at most MaxIssues issues in all and the    *)
(* lists of one issue repeated up to MaxRepeat times.                      *)
(***************************************************************************)
Issues(toks) == [i \in DOMAIN toks |-> ItemOf(toks[i])]

Repeat(tok, k) == [i \in 1..k |-> tok]

\* <<acc, ckpt, flu, appropiate>>, as token sequences
ScoreInputs ==
    {<<SubSeq(q, 1, i), SubSeq(q, i + 1, j), SubSeq(q, j + 1, k),
       SubSeq(q, k + 1, Len(q))>> :
        <<q, i, j, k>> \in
            {x \in (UNION {[1..n -> ItemTokens] : n \in 0..MaxIssues})
                    \X (0..MaxIssues) \X (0..MaxIssues) \X (0..MaxIssues) :
                x[2] <= x[3] /\ x[3] <= x[4] /\ x[4] <= Len(x[1])}}
    \cup
    {[a \in 1..4 |-> IF a = arg THEN Repeat(tok, n) ELSE <<>>] :
        <<arg, tok, n>> \in (1..4) \X ItemTokens \X (1..MaxRepeat)}

InitScore ==
    /\ model = <<"m">>
    /\ judgemodel = JUDGE_FULL
    /\ concurrency = 1
    /\ tasks_arg = <<1>>
    /\ phase = "running"
    /\ tasks = <<1>>
    /\ results = <<>>
    /\ last_run = None
    /\ jsonl_file = None
    /\ final_file = None
    /\ completed_counter = 0
    /\ already_run_data = <<>>
    /\ queue = <<>>
    /\ futures = (1 :> Pending)
    /\ yielded = {}
    /\ \E in \in ScoreInputs :
          pipe = [w \in Workers |->
                    IF w = 1
                    THEN Enter([IdlePipe EXCEPT
                                  !.task = 1,
                                  !.called = Before("calculate_score"),
                                  !.output = Str(<<"translation">>),
                                  !.instruct_res = Str(<<MARK, NO>>),
                                  !.acc_res = List(<<>>),
                                  !.ckpt_res = List(<<>>),
                                  !.flu_res = List(<<>>),
                                  !.appropiate_res = List(<<>>),
                                  !.adjustment_res = Str(<<"adjustment">>),
                                  !.acc_finalres = List(Issues(in[1])),
                                  !.ckpt_finalres = List(Issues(in[2])),
                                  !.flu_finalres = List(Issues(in[3])),
                                  !.appropiate_finalres = List(Issues(in[4]))],
                               "calculate_score")
                    ELSE IdlePipe]
    /\ dir = <<>>
    /\ clock = 1
    /\ runs = 1

NextScore == \E w \in Workers : Score(w)

SpecScore == InitScore /\ [][NextScore]_vars

(***************************************************************************)
(* Properties.                                                             *)
(***************************************************************************)
IsError(r) == "error" \in DOMAIN r

IsScored(r) == "score" \in DOMAIN r

\* the records of a list that are the scored record of task t
RecordsOf(t, rs) ==
    {i \in DOMAIN rs : "prompt_id" \in DOMAIN rs[i] /\ rs[i].prompt_id = t}

\* C1: a run that resumes a checkpoint written by runs over the same task
\* list, holding N of the M identifiers, submits exactly the M-N tasks
\* whose identifiers are not in it, and its final result file holds
\* exactly M records, one per task.
C1_ResumeOneRecordPerTask ==
    (/\ phase = "done"
     /\ last_run # None
     /\ dir[last_run].written_for = {tasks_arg}
     \* every task this run submitted returned a scored record
     /\ \A t \in DOMAIN futures : IsScored(futures[t]))
    => LET M == Len(tasks_arg)
           N == Len(already_run_data)
           detailed == dir[final_file].doc.detailed_results
       IN /\ N < M
          /\ Range(tasks) = Range(tasks_arg) \ Range(already_run_data)
          /\ Len(tasks) = M - N
          /\ Len(detailed) = M
          /\ \A t \in Range(tasks_arg) :
                Cardinality(RecordsOf(t, detailed)) = 1

\* C2: at startup, when a matching checkpoint exists: the run is fresh (all
\* tasks submitted, new files, results empty) if the identifiers in the
\* latest checkpoint cover every task of the list; otherwise it resumes
\* (tasks with an identifier in the checkpoint excluded, results seeded
\* with the lines read, the checkpoint file kept as the output).
C2_StartupDecision ==
    LET found == get_latest_jsonl_file(dir, Sanitize(model), TasksName)
    IN (phase = "running" /\ yielded = {} /\ found # None)
       => LET ids == Range(PromptIds(dir[found].lines))
          IN IF Range(tasks_arg) \subseteq ids
             THEN /\ tasks = tasks_arg
                  /\ results = <<>>
                  /\ jsonl_file \notin DOMAIN dir
                  /\ final_file \notin DOMAIN dir
             ELSE /\ Range(tasks) = Range(tasks_arg) \ ids
                  /\ results = dir[found].lines
                  /\ jsonl_file = found

\* C3: a task whose gate call failed (the invoker returned None) does not
\* end with an error record: no error record comes from the gate call.
C3_GateFailureDegrades ==
    \A t \in DOMAIN futures :
        IsError(futures[t]) => futures[t].traceback[1] # "instruct"

\* C4: a task whose candidate call failed (the invoker returned None) ends
\* with an error record: no scored record holds a failed candidate answer.
C4_CandidateFailureFailsTask ==
    \A t \in DOMAIN futures :
        IsScored(futures[t]) => futures[t].model_output # None

\* the records of the futures that are full RunRecords (the gate passed)
IsFull(r) == IsScored(r) /\ "accuracy" \in DOMAIN r.detailed_judgement

C6_RetryPolicy ==
    /\ [](\A w \in Workers :
            pipe[w].pc \in JudgeStages => pipe[w].attempt \in 1..(Retries + 1))
    /\ [][\A w \in Workers :
            (pipe[w].pc \in JudgeStages /\ pipe'[w] # pipe[w])
            => LET a == pipe[w]
                   b == pipe'[w]
                   stage == a.pc
               IN /\ futures' = futures
                  /\ IF a.attempt <= Retries
                     THEN \E reply \in JudgeReplies(judgemodel, stage) :
                             LET parsed == json_loads(JudgeFunc(reply))
                             IN \/ /\ ~IsRaise(parsed)
                                   /\ b.pc = NextStage(stage)
                                   /\ Local(b, stage) = parsed
                                \/ /\ IsRaise(parsed)
                                   /\ b.pc = stage
                                   /\ b.attempt = a.attempt + 1
                                   /\ Local(b, stage) = Unset
                     ELSE /\ b.pc = NextStage(stage)
                          /\ Local(b, stage) = List(<<>>)]_vars

\* C6 happens: two attempts of the accuracy judge have failed (the second
\* by an invoker that returned None) and the third and last is at hand
C6_Witness ==
    \E w \in Workers :
        /\ pipe[w].pc = "judge_accuracy"
        /\ pipe[w].attempt = Retries
        /\ pipe[w].res = None

\* C7: a task whose gate response has the marker followed by the "problem
\* exists" token ends with ScoreTuple (0,0,0), score 0 and a detailed
\* judgment of the gate result alone, and control never reaches a dimension
\* judge, the self-critique or a final judge with such a gate response, so
\* none of their calls is issued.
C7_GateShortCircuit ==
    /\ \A t \in DOMAIN futures :
          (/\ IsScored(futures[t])
           /\ GateProblem(futures[t].detailed_judgement["instruction_following"]))
          => /\ futures[t].domain_score = Tuple(<<0, 0, 0>>)
             /\ futures[t].score = 0
             /\ DOMAIN futures[t].detailed_judgement = {"instruction_following"}
    /\ \A w \in Workers :
          pipe[w].pc \notin {"idle", "litellm_generate", "instruct"}
          => /\ pipe[w].instruct_res.py = "str"
             /\ ~GateProblem(pipe[w].instruct_res)
    /\ \A w \in Workers :
          (pipe[w].pc = "instruct")
          => pipe[w].called \subseteq {"litellm_generate", "instruct"}

\* C7 happens: a task has ended on the short-circuit, its gate response
\* being junk in a fence followed by the marker and the token
C7_Witness ==
    \E t \in DOMAIN futures :
        /\ IsScored(futures[t])
        /\ futures[t].score = 0
        /\ DOMAIN futures[t].detailed_judgement = {"instruction_following"}
        /\ futures[t].detailed_judgement["instruction_following"]
              = Str(<<JUNK, MARK, YES>>)

\* the lines of a file of the directory, none if it does not exist yet
LinesOf(d, name) == IF name \in DOMAIN d THEN d[name].lines ELSE <<>>

\* C8: whatever is raised while a task's record is produced ends as a
\* record of exactly the fields error and traceback; the main thread appends
\* that record to results and to the checkpoint file; the final file lists
\* it in detailed_results and averages over the scored records only; and the
\* step at which a task fails changes nothing of the other tasks, of the
\* queue, of the files or of the run.
C8_TaskFailureContained ==
    /\ [](\A t \in DOMAIN futures :
            \/ futures[t] = Pending
            \/ DOMAIN futures[t] = {"prompt_id", "model_output", "domain_score",
                                    "score", "detailed_judgement"}
            \/ DOMAIN futures[t] = {"error", "traceback"})
    /\ [][\A t \in DOMAIN futures :
            (/\ t \in DOMAIN futures'
             /\ futures[t] = Pending
             /\ IsError(futures'[t]))
            => /\ \A u \in DOMAIN futures \ {t} : futures'[u] = futures[u]
               /\ \A w \in Workers :
                     pipe[w].task # t => pipe'[w] = pipe[w]
               /\ UNCHANGED <<queue, yielded, phase, results, dir,
                              jsonl_file, final_file>>]_vars
    /\ [][\A t \in yielded' \ yielded :
            IsError(futures[t])
            => /\ results' = Append(results, futures[t])
               /\ LinesOf(dir', jsonl_file)
                     = Append(LinesOf(dir, jsonl_file), futures[t])
               /\ phase' = "running"]_vars
    /\ [](phase = "done"
          => LET doc == dir[final_file].doc
                 scored == {i \in DOMAIN results : IsScored(results[i])}
                 failed == {i \in DOMAIN results : IsError(results[i])}
             IN /\ Len(doc.detailed_results) = Len(results)
                /\ \A i \in failed : doc.detailed_results[i] = results[i]
                /\ \A t \in DOMAIN futures :
                      IsError(futures[t])
                      => \E i \in failed : results[i] = futures[t]
                /\ scored \cap failed = {}
                /\ doc.average_accuracy.den
                      = IF scored = {} THEN 1 ELSE 100 * Cardinality(scored)
                /\ LinesOf(dir, jsonl_file) = doc.detailed_results)

\* C8 happens: a run of two tasks is finalized, one task having failed and
\* the other having been scored
C8_Witness ==
    /\ phase = "done"
    /\ \E t, u \in DOMAIN futures :
          /\ IsError(futures[t])
          /\ IsScored(futures[u])
          /\ futures[u].prompt_id = u
    /\ Len(dir[final_file].doc.detailed_results) = 2

\* C9: a process that is not killed and whose calls all return finalizes
\* every run it starts, whichever tasks and judge attempts fail: from any
\* state of a run under way, that same run reaches the state in which its
\* final result file is written.
C9_RunReachesFinalization ==
    \A r \in 1..MaxRuns :
        (phase = "running" /\ runs = r)
            ~> (phase = "done" /\ runs = r /\ final_file \in DOMAIN dir)

\* C9 happens: a run whose every task failed is finalized
C9_Witness ==
    /\ phase = "done"
    /\ final_file \in DOMAIN dir
    /\ Cardinality(DOMAIN futures) = MaxTasks
    /\ \A t \in DOMAIN futures : IsError(futures[t])

\* C10: within one task the stages run in program order, each call having
\* returned before the next stage starts: gate, four dimension judges,
\* self-critique, four final judges, score.  Each final judge is called
\* with the initial judgment of its own dimension and the self-critique
\* output; the score is called with the four final judgments, and the
\* ScoreTuple of the record is the score of those.
C10_StageOrdering ==
    /\ \A w \in Workers :
          pipe[w].pc # "idle"
          => LET p == pipe[w]
                 done == Before(p.pc)
             IN /\ done \subseteq p.called
                /\ p.called \subseteq done \cup {p.pc}
                /\ (p.output # Unset) = ("litellm_generate" \in done)
                /\ (p.instruct_res # Unset) = ("instruct" \in done)
                /\ \A st \in JudgeStages :
                      (Local(p, st) # Unset) = (st \in done)
                /\ (p.adjustment_res # Unset)
                      = ("self_critique_judge" \in done)
                /\ p.pc = "final_accuracy"
                      => p.kwargs = [accuracy_judge_result |-> p.acc_res,
                                     adjustment |-> p.adjustment_res]
                /\ p.pc = "final_appropiate"
                      => p.kwargs = [style_judge_result |-> p.appropiate_res,
                                     adjustment |-> p.adjustment_res]
                /\ p.pc = "final_checkpoints"
                      => p.kwargs = [checkpoints_judge_result |-> p.ckpt_res,
                                     adjustment |-> p.adjustment_res]
                /\ p.pc = "final_fluency"
                      => p.kwargs = [fluency_judge_result |-> p.flu_res,
                                     adjustment |-> p.adjustment_res]
                /\ p.pc = "calculate_score"
                      => p.kwargs = [acc |-> p.acc_finalres,
                                     ckpt |-> p.ckpt_finalres,
                                     flu |-> p.flu_finalres,
                                     appropiate |-> p.appropiate_finalres]
    /\ StageOrder =
          <<"litellm_generate", "instruct",
            "judge_accuracy", "judge_checkpoint", "judge_fluency",
            "judge_appropiate", "self_critique_judge",
            "final_accuracy", "final_appropiate", "final_checkpoints",
            "final_fluency", "calculate_score">>
    /\ \A t \in DOMAIN futures :
          IsFull(futures[t])
          => LET dj == futures[t].detailed_judgement
             IN /\ futures[t].domain_score =
                      calculate_score(dj["accuracy"], dj["checkpoints"],
                                      dj["fluency"], dj["appropiate"])
                /\ futures[t].score = SumScores(futures[t].domain_score)

\* C10 happens: a task is scored whose final accuracy judgment differs
\* from the initial one, and whose score is that of the final judgments and
\* not that of the initial ones
C10_Witness ==
    \E t \in DOMAIN futures :
        /\ IsFull(futures[t])
        /\ LET dj == futures[t].detailed_judgement
               ij == dj["initial_judgement"]
           IN /\ ij.accuracy # dj["accuracy"]
              /\ futures[t].domain_score #
                    calculate_score(ij.accuracy, ij.checkpoints,
                                    ij.fluency, ij.appropiate)

\* the final judgments of a full record: accuracy, checkpoints, fluency,
\* appropiate
FinalOf(r, key) == r.detailed_judgement[key].l

\* the penalty of one accuracy issue: the table of the severities; -5 for a
\* severity that is absent or not in the table
AccuracyPenalty(item) ==
    IF KEY_SEVERITY \notin DOMAIN item THEN -5
    ELSE CASE item[KEY_SEVERITY] = "zhengti-wu-wenti" -> 0
           [] item[KEY_SEVERITY] \in {"putong", "Major"} -> -5
           [] item[KEY_SEVERITY] \in {"yanzhong", "Critical"} -> -10
           [] item[KEY_SEVERITY] \in {"feichang-yanzhong", "Extremely Critical"}
                -> -50
           [] OTHER -> -5

\* the penalty of one checkpoint issue: -5 when marked incorrect, else 0
CheckpointPenalty(item) ==
    IF KEY_VERDICT \in DOMAIN item /\ item[KEY_VERDICT] = "cuowu"
    THEN -5 ELSE 0

\* C11: the accuracy score of every record scored by calculate_score is
\* max(0, 60 + the penalties of the accuracy issues + the penalties of the
\* checkpoint issues), an unrecognized or absent severity costing 5 and a
\* checkpoint costing 5 only when marked incorrect.
C11_AccuracyScore ==
    \A t \in DOMAIN futures :
        IsFull(futures[t])
        => LET acc == FinalOf(futures[t], "accuracy")
               ckpt == FinalOf(futures[t], "checkpoints")
               total == 60
                    + SumSeq([i \in DOMAIN acc |-> AccuracyPenalty(acc[i])])
                    + SumSeq([i \in DOMAIN ckpt |-> CheckpointPenalty(ckpt[i])])
           IN futures[t].domain_score.l[1] = IF total < 0 THEN 0 ELSE total

\* C11 happens: three extremely severe accuracy issues are scored 0
C11_Witness ==
    \E t \in DOMAIN futures :
        /\ IsFull(futures[t])
        /\ FinalOf(futures[t], "accuracy")
              = Issues(Repeat("{sev:extreme}", 3))
        /\ futures[t].domain_score.l[1] = 0

\* the issues of a judgment flagged as a problem
Flagged(items) ==
    {i \in DOMAIN items :
        KEY_SEVERITY \in DOMAIN items[i] /\ items[i][KEY_SEVERITY] = "you-wenti"}

\* C12: every ScoreTuple has 0 <= accuracy <= 60, 0 <= fluency <= 20,
\* 0 <= appropriateness <= 20 and a total of at most 100; four empty
\* judgments give (60, 20, 20); fluency is max(0, 20 - 2 * flagged issues),
\* appropriateness max(0, 20 - 5 * flagged issues); and one more issue, of
\* any kind, in a judgment never raises the score of that judgment.
C12_ScoreBounds ==
    \A t \in DOMAIN futures :
        IsFull(futures[t])
        => LET acc == FinalOf(futures[t], "accuracy")
               ckpt == FinalOf(futures[t], "checkpoints")
               flu == FinalOf(futures[t], "fluency")
               app == FinalOf(futures[t], "appropiate")
               sc == futures[t].domain_score.l
               f == 20 - 2 * Cardinality(Flagged(flu))
               a == 20 - 5 * Cardinality(Flagged(app))
           IN /\ sc[1] \in 0..60 /\ sc[2] \in 0..20 /\ sc[3] \in 0..20
              /\ futures[t].score = sc[1] + sc[2] + sc[3]
              /\ futures[t].score <= 100
              /\ (acc = <<>> /\ ckpt = <<>> /\ flu = <<>> /\ app = <<>>)
                    => sc = <<60, 20, 20>> /\ futures[t].score = 100
              /\ sc[2] = IF f < 0 THEN 0 ELSE f
              /\ sc[3] = IF a < 0 THEN 0 ELSE a
              /\ \A tok \in ItemTokens :
                    LET more(q) == List(Append(q, ItemOf(tok)))
                    IN /\ calculate_score(more(acc), List(ckpt), List(flu),
                                          List(app)).l[1] <= sc[1]
                       /\ calculate_score(List(acc), more(ckpt), List(flu),
                                          List(app)).l[1] <= sc[1]
                       /\ calculate_score(List(acc), List(ckpt), more(flu),
                                          List(app)).l[2] <= sc[2]
                       /\ calculate_score(List(acc), List(ckpt), List(flu),
                                          more(app)).l[3] <= sc[3]

\* C12 happens: eleven flagged fluency issues are scored 0, not -2
C12_Witness ==
    \E t \in DOMAIN futures :
        /\ IsFull(futures[t])
        /\ Cardinality(Flagged(FinalOf(futures[t], "fluency"))) = 11
        /\ futures[t].domain_score.l = <<60, 0, 20>>

\* C13: the average written at finalization is the sum of the scores of
\* the records that carry one, over 100 times their number, the records
\* being all the lines of the checkpoint of the run (those read from it on
\* resume and those of this run); error records are not counted, a task
\* that failed the gate counts with 0, and with no scored record the
\* average is 0 with a denominator that is not 0.
C13_AverageAccuracy ==
    phase = "done"
    => LET avg == dir[final_file].doc.average_accuracy
           recs == LinesOf(dir, jsonl_file)
           scored == {i \in DOMAIN recs : "score" \in DOMAIN recs[i]}
           sum == SumSeq([i \in DOMAIN recs |->
                            IF i \in scored THEN recs[i].score ELSE 0])
       IN /\ avg.den > 0
          /\ IF scored = {}
             THEN avg.num = 0
             ELSE avg.num * (100 * Cardinality(scored)) = sum * avg.den
          /\ \A t \in DOMAIN futures :
                IsScored(futures[t])
                => \E i \in scored : recs[i] = json_dumps(futures[t])

\* C13 happens: a resumed run is finalized with an error record and a
\* gate-failed record read from the checkpoint and a task scored 100 in this
\* run: the average is 100 / 200
C13_Witness ==
    /\ phase = "done"
    /\ last_run # None
    /\ \E i \in DOMAIN results : IsError(results[i])
    /\ \E i \in DOMAIN results : IsScored(results[i]) /\ results[i].score = 0
    /\ \E t \in DOMAIN futures : IsScored(futures[t]) /\ futures[t].score = 100
    /\ dir[final_file].doc.average_accuracy = [num |-> 100, den |-> 200]

\* the threads of the pool that are inside a wrapped_run call
Busy == {w \in Workers : pipe[w].pc # "idle"}

\* C14: during a run with limit concurrency at most that many tasks are
\* being executed, no two threads execute the same task, and every task
\* submitted is, at any time, exactly one of: waiting in the queue once,
\* being executed by one thread, or finished; when the run is finalized
\* every submitted task has finished and was counted once.
C14_BoundedConcurrency ==
    phase \in {"running", "done"}
    => /\ Cardinality(Busy) <= concurrency
       /\ \A v, w \in Busy : pipe[v].task = pipe[w].task => v = w
       /\ DOMAIN futures = Range(tasks)
       /\ \A t \in Range(tasks) :
             Cardinality({i \in DOMAIN queue : queue[i] = t})
             + Cardinality({w \in Busy : pipe[w].task = t})
             + (IF futures[t] # Pending THEN 1 ELSE 0) = 1
       /\ completed_counter
             = Cardinality({t \in DOMAIN futures : futures[t] # Pending})
       /\ phase = "done"
             => /\ completed_counter = Len(tasks)
                /\ Busy = {} /\ queue = <<>>

\* C14 happens: with a limit of 1 and two tasks submitted, the first task
\* has finished and the second is being executed by the only thread in use
C14_Witness ==
    /\ phase = "running"
    /\ concurrency = 1
    /\ Len(tasks) = 2
    /\ Cardinality(Busy) = 1
    /\ \E t \in DOMAIN futures : futures[t] # Pending
    /\ queue = <<>>

\* the checkpoint files of a directory
Checkpoints(d) == {name \in DOMAIN d : "lines" \in DOMAIN d[name]}

\* a line that json.loads gives back as the record of one task: a RunRecord
\* with its ScoreTuple as a JSON array, or an error record
WholeLine(line) ==
    \/ /\ DOMAIN line = {"prompt_id", "model_output", "domain_score", "score",
                         "detailed_judgement"}
       /\ line.prompt_id \in TaskIds
       /\ line.domain_score.py = "list"
    \/ DOMAIN line = {"error", "traceback"}

\* C15: whatever the order in which tasks finish and wherever the process
\* is killed between appends, every line of every checkpoint file is the
\* whole record of one task; a step never alters or removes a line that is
\* in a file; the run's checkpoint grows by exactly the line of the task
\* collected at that step; and a run that is finalized has collected every
\* submitted task, so one line per submitted task was appended.
C15_CheckpointIntegrity ==
    /\ [](\A name \in Checkpoints(dir) :
            \A i \in DOMAIN dir[name].lines : WholeLine(dir[name].lines[i]))
    /\ [][\A name \in Checkpoints(dir) :
            /\ name \in Checkpoints(dir')
            /\ Len(dir'[name].lines) >= Len(dir[name].lines)
            /\ SubSeq(dir'[name].lines, 1, Len(dir[name].lines))
                  = dir[name].lines]_vars
    /\ [][(phase = "running" /\ phase' # "none")
          => LET old == LinesOf(dir, jsonl_file)
                 new == LinesOf(dir', jsonl_file)
                 now == yielded' \ yielded
             IN /\ yielded \subseteq yielded'
                /\ Cardinality(now) <= 1
                /\ Len(new) = Len(old) + Cardinality(now)
                /\ \A t \in now : /\ futures[t] # Pending
                                  /\ new[Len(new)] = json_dumps(futures[t])
                /\ \A name \in Checkpoints(dir') \ {jsonl_file} :
                      name \in Checkpoints(dir) /\ dir'[name] = dir[name]]_vars
    /\ [](phase = "done" => yielded = Range(tasks) /\ Range(tasks) # {})

\* C15 happens: a process running two tasks was killed after the first
\* append and before the second; its checkpoint holds the one whole line
C15_Witness ==
    /\ phase = "none"
    /\ \E name \in Checkpoints(dir) :
          /\ Len(dir[name].lines) = 1
          /\ dir[name].written_for = {<<1, 2>>}

\* C16: the self-critique is called once for a task that passed the gate,
\* and whatever the call yields (None included) the task does not fail
\* there: the final judges run with the result as it is and the task ends
\* with a scored record.
C16_SelfCritiqueTolerated ==
    /\ \A w \in Workers :
          pipe[w].pc \in Range(FinalStages) \cup {"calculate_score"}
          => "self_critique_judge" \in pipe[w].called
    /\ \A t \in DOMAIN futures :
          IsError(futures[t])
          => futures[t].traceback[1] # "self_critique_judge"

\* C17: the checkpoint a run reads at startup (the latest file matching
\* its pattern, looked up before the run has written anything) was written
\* only by runs for the same candidate model identifier; so was the file a
\* resumed run appends to.
C17_CheckpointSelection ==
    /\ (phase = "running" /\ yielded = {})
       => LET found == get_latest_jsonl_file(dir, Sanitize(model), TasksName)
          IN found # None => dir[found].written_by = {model}
    /\ (phase = "running" /\ last_run # None)
       => dir[last_run].written_by \subseteq {model}

\* the tasks that have a scored record among the lines of a checkpoint
ScoredIn(lines) ==
    {lines[i].prompt_id : i \in {k \in DOMAIN lines : IsScored(lines[k])}}

\* C18: an error record does not count as a completed task: a run that
\* resumes from a checkpoint submits every task of its list that has no
\* scored record there (and a run that does not resume submits them all);
\* and every run ends with each task of its list either holding a scored
\* record in the run's checkpoint or having failed in this very run, so a
\* task whose evaluation succeeds in some run has its scored record from
\* then on.
C18_FailedTasksRetried ==
    /\ [][(phase # "running" /\ phase' = "running")
          => LET found == get_latest_jsonl_file(dir, Sanitize(model'),
                                                TasksName)
             IN /\ last_run' # None
                   => /\ last_run' = found
                      /\ Range(tasks') =
                            Range(tasks_arg') \ ScoredIn(dir[found].lines)
                      /\ Len(already_run_data')
                            = Cardinality(ScoredIn(dir[found].lines))
                /\ last_run' = None => tasks' = tasks_arg'
                /\ DOMAIN futures' = Range(tasks')]_vars
    /\ \A r \in 1..MaxRuns :
          (phase = "running" /\ runs = r)
             ~> (/\ phase = "done" /\ runs = r
                 /\ \A t \in Range(tasks_arg) :
                       \/ t \in ScoredIn(LinesOf(dir, jsonl_file))
                       \/ t \in DOMAIN futures /\ IsError(futures[t]))

\* C18 happens: a run that resumed from a checkpoint holding an error
\* record (and no scored record) is finalized with every task of its list
\* scored
C18_Witness ==
    /\ phase = "done"
    /\ last_run # None
    /\ already_run_data = <<>>
    /\ \E i \in DOMAIN results : IsError(results[i])
    /\ \A t \in DOMAIN futures : IsScored(futures[t])
    /\ Range(tasks_arg) = ScoredIn(LinesOf(dir, jsonl_file))

\* C19: whatever JSON a judge answers, the value the wrapper returns to
\* metrics is a list, so the score computation never raises: no task ends
\* as an error record raised in calculate_score.
C19_JudgeResultShape ==
    /\ \A w \in Workers : \A st \in JudgeStages :
          Local(pipe[w], st) # Unset => Local(pipe[w], st).py = "list"
    /\ \A t \in DOMAIN futures :
          IsError(futures[t]) => futures[t].traceback[1] # "calculate_score"

\* a record of the early return of metrics: the gate result alone
IsGateOnly(r) ==
    IsScored(r) /\ DOMAIN r.detailed_judgement = {"instruction_following"}

\* C20: metrics returns on the gate only when the first marker of the gate
\* response is followed by the "problem exists" token; a task whose gate
\* response is any other text (no marker, another token after it, the
\* empty text) goes on to the dimension judges and ends fully scored.
C20_GatePassesByDefault ==
    /\ [](\A t \in DOMAIN futures :
             IsGateOnly(futures[t])
             => GateProblem(futures[t].detailed_judgement["instruction_following"]))
    /\ [][\A w \in Workers :
             (/\ pipe[w].pc = "instruct"
              /\ pipe'[w].pc \notin {"instruct", "idle"})
             => /\ pipe'[w].pc = "judge_accuracy"
                /\ ~GateProblem(pipe'[w].instruct_res)]_vars
    /\ [][\A w \in Workers :
             (/\ pipe[w].pc \notin {"idle", "litellm_generate", "instruct"}
              /\ pipe[w].instruct_res.py = "str"
              /\ ~GateProblem(pipe[w].instruct_res)
              /\ futures'[pipe[w].task] # futures[pipe[w].task])
             => IsFull(futures'[pipe[w].task])]_vars
====
